---- MODULE Spec2Model ----
(***************************************************************************)
(* Collaborative order session of the restaurant back end.                 *)
(*                                                                         *)
(* The persistent store (tables, orders, order_guests, order_items) is the *)
(* shared state.  Every inbound HTTP request or socket event is a task     *)
(* that runs in one of the request slots Procs; a task is suspended at     *)
(* every `await` on a store access, so each action below is the code that  *)
(* runs up to and including one store access.  Code between two awaits is  *)
(* atomic (one JavaScript thread).                                         *)
(*                                                                         *)
(* Money is kept in minor units (cents): 100.00 is 10000.                  *)
(* The order controller is modelled with its model imports bound (the      *)
(* import line of the controller is commented out in the source).          *)
(* All requests happen on one calendar day.                                *)
(***************************************************************************)
EXTENDS Integers, Sequences, FiniteSets, Bags, TLC

\* ------------------------------------------------------------------ bounds
NumProcs == 2          \* request slots: requests that can be in flight at once
MaxScanRequests == 3   \* requests budget in a behaviour that begins with the empty store
MaxOrderRequests == 2  \* requests budget in a behaviour that begins with an open order
MaxQty == 2            \* largest quantity a guest asks for
NumTables == 1         \* tables of the restaurant
MaxSoloRequests == 1   \* requests budget in a behaviour that follows requests one by one
MaxSocketEvents == 3   \* events one guest socket sends in a behaviour

Procs == 1..NumProcs
TableIds == 1..NumTables

\* ------------------------------------------------------------- fixed data
\* The one restaurant (Restaurant model, read-only to the order core).
RestaurantId == 1
Restaurant == [is_active |-> TRUE, tax_rate |-> 14, service_charge_rate |-> 12]

\* qr_code of each table (Table.qr_code, unique).
QrCodes == <<"qr-T1", "qr-T2", "qr-T3">>

\* Menu (MenuItem rows as first stored): price in cents and availability.
Menu == <<[price |-> 5000, is_available |-> TRUE],
          [price |-> 75, is_available |-> FALSE]>>
\* menuItemId values of a request: the menu rows and one unknown id.
MenuInputs == 1..(Len(Menu) + 1)

\* guest names a scan request carries ("" is an omitted name)
NameInputs == {"", "Ann"}
\* `Guest ${n}` (createGuestSession)
AutoNames == <<"Guest 1", "Guest 2", "Guest 3", "Guest 4", "Guest 5", "Guest 6">>

\* Order.status ENUM
Statuses == {"pending", "confirmed", "preparing", "ready", "served", "completed", "cancelled"}
\* statuses getOrCreateTableSession looks for
SessionStatuses == {"pending", "confirmed", "preparing"}
\* activeStatuses of validateGuestSession
ActiveStatuses == {"pending", "confirmed", "preparing", "ready"}
\* validStatuses of the HTTP handler updateOrderStatus
HttpValidStatuses == {"pending", "confirmed", "preparing", "ready", "served", "completed", "cancelled"}
\* validStatuses of the socket handler update-order-status
SocketValidStatuses == {"confirmed", "preparing", "ready", "served", "completed", "cancelled"}
TerminalStatuses == {"completed", "cancelled"}
\* status values a staff request carries
StatusInputs == Statuses \cup {"bogus"}

VARIABLES
  tables,    \* tables[t]: the Table row t
  orders,    \* orders[o]: the Order row with order_id o (autoincrement)
  guests,    \* guests[g]: the OrderGuest row with guest_id g; its session token is g
  items,     \* items[i]: the OrderItem row with order_item_id i; deleted rows keep their id
  req,       \* req[p]: the request running in slot p: handler, position and locals
  budget,    \* number of requests that may still start (bounds the behaviour)
  answers,   \* the answers given so far: a bag of [op, result, tableId, orderId, guestId,
             \* message]
  rooms,     \* rooms[r]: the events the sockets joined to room r received, in order;
             \* its domain is the set of rooms that have a joined socket
  menu,      \* menu[m]: the MenuItem row m (price in cents, availability)
  socket     \* one guest's socket: whether it is connected, the order rooms it has
             \* joined, and socket.data.orderId / guestId (0 when not set)

vars == <<tables, orders, guests, items, req, budget, answers, rooms, menu, socket>>

\* a connected socket that has joined no room and has no data
NoSocket == [connected |-> TRUE, joined |-> {}, orderId |-> 0, guestId |-> 0]

ZeroTotals == [subtotal |-> 0, tax_amount |-> 0, service_charge |-> 0, total_amount |-> 0]

\* a free request slot
Idle == [op |-> "none", pc |-> "idle", result |-> "", tableId |-> 0, orderId |-> 0,
         guestId |-> 0, guestName |-> "", itemId |-> 0, menuItemId |-> 0, quantity |-> 0,
         unitPrice |-> 0, calc |-> ZeroTotals, status |-> "", n |-> 0, body |-> <<>>,
         message |-> ""]

Free(p) == req[p].pc = "idle"
\* a request starts in the lowest free slot (free slots are alike)
CanStart(p) == Free(p) /\ budget > 0 /\ \A q \in Procs : q < p => ~Free(q)
Quiescent == \A p \in Procs : Free(p)

\* the last position of a request: it is answered with `result`
Answer(op, result, orderId, guestId) ==
  [Idle EXCEPT !.op = op, !.pc = "done", !.result = result, !.orderId = orderId, !.guestId = guestId]

\* what is kept of an answer
Answered(r) == [op |-> r.op, result |-> r.result, tableId |-> r.tableId,
                orderId |-> r.orderId, guestId |-> r.guestId, message |-> r.message]

\* request p goes on at position r; at its last position the answer is recorded
\* and the slot is free again
Goto(p, r) ==
  /\ req' = [req EXCEPT ![p] = IF r.pc = "done" THEN Idle ELSE r]
  /\ answers' = IF r.pc = "done" THEN answers (+) SetToBag({Answered(r)}) ELSE answers

\* number of requests of handler op answered with success
OkCount(op) ==
  LET S == {a \in BagToSet(answers) : a.op = op /\ a.result = "ok"} IN
  BagCardinality([a \in S |-> answers[a]])

\* isNewSession of getOrCreateTableSession: !activeOrder.order_id, where activeOrder
\* is the order found or the order just created (0 stands for no id)
IsNewSession(orderId) == orderId = 0

\* the message of handleQRScan
ScanMessage(isNewSession) ==
  IF isNewSession THEN "New session started for this table"
  ELSE "Joined existing table session"

\* the answer of a scan names the table as well; a successful one carries the
\* message
ScanAnswer(result, tableId, orderId, guestId) ==
  [Answer("scan", result, orderId, guestId) EXCEPT
     !.tableId = tableId,
     !.message = IF result = "ok" THEN ScanMessage(IsNewSession(orderId)) ELSE ""]

OrderIds == DOMAIN orders

Max(S) == CHOOSE x \in S : \A y \in S : y <= x

\* ------------------------------------------------------------ socket rooms
\* `order-${orderId}`, `restaurant-${restaurantId}-kitchen`, `restaurant-${restaurantId}-cashier`
OrderRoom(orderId) == <<"order", orderId>>
KitchenRoom(restaurantId) == <<"restaurant-kitchen", restaurantId>>
CashierRoom(restaurantId) == <<"restaurant-cashier", restaurantId>>

\* an event and what the model keeps of its payload
Event(name, orderId, itemId, status) ==
  [name |-> name, orderId |-> orderId, itemId |-> itemId, status |-> status]

\* an emit that is dropped
EmitNothing(rms, room, e) == rms

\* io.to(room).emit(...): the sockets joined to the room receive the event; a room
\* nobody joined receives nothing
Emit(rms, room, e) ==
  IF room \in DOMAIN rms THEN [rms EXCEPT ![room] = Append(@, e)] ELSE rms

\* --------------------------------------------------------- queries on the store
\* Order.findOne({where: {table_id, restaurant_id, status: [...]}, order: created_at DESC})
\* of getOrCreateTableSession: the orders it can find.  created_at grows with order_id.
SessionOrdersOfTable(ords, tableId, restaurantId) ==
  {o \in DOMAIN ords : /\ ords[o].table_id = tableId
                       /\ ords[o].restaurant_id = restaurantId
                       /\ ords[o].status \in SessionStatuses}

\* Order.count({where: {restaurant_id, created_at today}}) of generateOrderNumber
TodayOrderCount(ords, restaurantId) ==
  Cardinality({o \in DOMAIN ords : ords[o].restaurant_id = restaurantId})

\* `ORD-${dateStr}-${restaurantId}-${sequence}`: the date is fixed, so the number is
\* the pair of restaurant and sequence (padStart keeps sequences distinct)
generateOrderNumber(ords, restaurantId) ==
  <<restaurantId, TodayOrderCount(ords, restaurantId) + 1>>

\* an order_number column without the unique constraint
OrderNumberNeverTaken(ords, number) == FALSE

\* Order.order_number is unique: Order.create throws on a number already stored
OrderNumberTaken(ords, number) == \E o \in DOMAIN ords : ords[o].order_number = number

\* the row Order.create inserts in getOrCreateTableSession
NewOrder(restaurantId, tableId, number) ==
  [restaurant_id |-> restaurantId, table_id |-> tableId, order_number |-> number,
   status |-> "pending", subtotal |-> 0, tax_amount |-> 0, service_charge |-> 0,
   discount_amount |-> 0, total_amount |-> 0]

\* OrderGuest.count({where: {order_id}})
GuestCount(gs, orderId) == Cardinality({g \in DOMAIN gs : gs[g].order_id = orderId})

\* unique index unique_guest_per_order (order_id, guest_name)
GuestNameTaken(gs, orderId, name) ==
  \E g \in DOMAIN gs : gs[g].order_id = orderId /\ gs[g].guest_name = name

\* the table a qr code belongs to (Table.findOne({where: {qr_code}})), 0 when none
TableOfQr(tbls, qrToken) ==
  IF \E t \in DOMAIN tbls : tbls[t].qr_code = qrToken
    THEN CHOOSE t \in DOMAIN tbls : tbls[t].qr_code = qrToken
    ELSE 0

\* validateQRCode: "ok" or the error it returns
validateQRCode(tbls, qrToken) ==
  LET t == TableOfQr(tbls, qrToken) IN
  IF t = 0 THEN "Invalid QR code"
  ELSE IF ~Restaurant.is_active THEN "Restaurant is currently inactive"
  ELSE IF tbls[t].status = "maintenance" THEN "Table is under maintenance"
  ELSE "ok"

\* a session check that accepts every issued token, whatever the status of its order
validateGuestSessionLax(gs, ords, sessionToken) ==
  IF sessionToken \notin DOMAIN gs THEN "Invalid session token" ELSE "ok"

\* validateGuestSession: "ok" or the error it returns.  The guest row and its order
\* are read by one query.
validateGuestSession(gs, ords, sessionToken) ==
  IF sessionToken \notin DOMAIN gs THEN "Invalid session token"
  ELSE IF ords[gs[sessionToken].order_id].status \notin ActiveStatuses
    THEN "Order session has ended"
  ELSE "ok"

\* ------------------------------------------------------------------- scan
\* POST /api/orders/scan: scanQRAndJoin -> handleQRScan.
\* Step 1: the controller's check of qrToken, then validateQRCode (Table.findOne).
scan_validateQRCode(p, qrToken, guestName) ==
  /\ CanStart(p)
  /\ budget' = budget - 1
  /\ LET v == validateQRCode(tables, qrToken) IN
     Goto(p,
       IF qrToken = "" THEN Answer("scan", "QR token is required", 0, 0)
       ELSE IF v # "ok" THEN ScanAnswer(v, TableOfQr(tables, qrToken), 0, 0)
       ELSE [Idle EXCEPT !.op = "scan", !.pc = "scan_findOrder",
                         !.tableId = TableOfQr(tables, qrToken), !.guestName = guestName])
  /\ UNCHANGED <<tables, orders, guests, items, rooms, menu, socket>>

\* where createGuestSession starts: it counts the guests only when no name was given
GuestStep(guestName) == IF guestName = "" THEN "scan_countGuests" ELSE "scan_createGuest"

\* Step 2: getOrCreateTableSession, Order.findOne for an active order of the table.
scan_findOrder(p) ==
  /\ req[p].pc = "scan_findOrder"
  /\ LET found == SessionOrdersOfTable(orders, req[p].tableId, RestaurantId) IN
     Goto(p,
       IF found # {}
         THEN [req[p] EXCEPT !.orderId = Max(found), !.pc = GuestStep(req[p].guestName)]
         ELSE [req[p] EXCEPT !.pc = "scan_orderNumber"])
  /\ UNCHANGED <<tables, orders, guests, items, budget, rooms, menu, socket>>

\* Step 3: generateOrderNumber (Order.count).
scan_orderNumber(p) ==
  /\ req[p].pc = "scan_orderNumber"
  /\ Goto(p, [req[p] EXCEPT !.n = generateOrderNumber(orders, RestaurantId)[2],
              !.pc = "scan_createOrder"])
  /\ UNCHANGED <<tables, orders, guests, items, budget, rooms, menu, socket>>

\* Step 4: Order.create.  A duplicate order_number makes it throw; handleQRScan
\* rethrows and the request is answered with an error.
scan_createOrder(p) ==
  /\ req[p].pc = "scan_createOrder"
  /\ LET number == <<RestaurantId, req[p].n>> IN
     IF OrderNumberTaken(orders, number)
       THEN /\ Goto(p, ScanAnswer("Internal error", req[p].tableId, 0, 0))
            /\ UNCHANGED orders
       ELSE /\ orders' = Append(orders, NewOrder(RestaurantId, req[p].tableId, number))
            /\ Goto(p, [req[p] EXCEPT !.orderId = Len(orders) + 1,
              !.pc = "scan_occupyTable"])
  /\ UNCHANGED <<tables, guests, items, budget, rooms, menu, socket>>

\* Step 5: Table.update({status: 'occupied'}).
scan_occupyTable(p) ==
  /\ req[p].pc = "scan_occupyTable"
  /\ tables' = [tables EXCEPT ![req[p].tableId].status = "occupied"]
  /\ Goto(p, [req[p] EXCEPT !.pc = GuestStep(req[p].guestName)])
  /\ UNCHANGED <<orders, guests, items, budget, rooms, menu, socket>>

\* Step 6: createGuestSession without a name: OrderGuest.count, `Guest ${count + 1}`.
scan_countGuests(p) ==
  /\ req[p].pc = "scan_countGuests"
  /\ Goto(p,
       [req[p] EXCEPT !.guestName = AutoNames[GuestCount(guests, req[p].orderId) + 1],
                 !.pc = "scan_createGuest"])
  /\ UNCHANGED <<tables, orders, guests, items, budget, rooms, menu, socket>>

\* Step 7: OrderGuest.create (it throws on a name already used in the order), then
\* trackQRScan (its failure is swallowed), the guest-joined event and the answer.
scan_createGuest(p) ==
  /\ req[p].pc = "scan_createGuest"
  /\ IF GuestNameTaken(guests, req[p].orderId, req[p].guestName)
       THEN /\ Goto(p, ScanAnswer("Internal error", req[p].tableId, 0, 0))
            /\ UNCHANGED <<guests, rooms>>
       ELSE /\ guests' = Append(guests, [order_id |-> req[p].orderId,
                                         guest_name |-> req[p].guestName])
            /\ rooms' = Emit(rooms, OrderRoom(req[p].orderId),
                             Event("guest-joined", req[p].orderId, 0, ""))
            /\ Goto(p,
                 ScanAnswer("ok", req[p].tableId, req[p].orderId, Len(guests) + 1))
  /\ UNCHANGED <<tables, orders, items, budget, menu, socket>>

\* ------------------------------------------------------- staff status change
\* the status update of both staff handlers: order.update({ status })
WriteStatus(ords, orderId, status) == [ords EXCEPT ![orderId].status = status]

\* a table update that changes nothing
KeepTable(tbls, tableId) == tbls

\* Table.update({status: 'available'}, {where: {table_id}})
ReleaseTable(tbls, tableId) == [tbls EXCEPT ![tableId].status = "available"]

\* the events of updateOrderStatus: order-status-updated to the order's room and
\* order-updated to the kitchen room
HttpStatusEmits(rms, orderId, status) ==
  Emit(Emit(rms, OrderRoom(orderId), Event("order-status-updated", orderId, 0, status)),
       KitchenRoom(RestaurantId), Event("order-updated", orderId, 0, status))

\* the events of update-order-status: the same two, and order-ready-for-payment to
\* the cashier room when the status is ready or completed
SocketStatusEmits(rms, orderId, status) ==
  LET r == HttpStatusEmits(rms, orderId, status) IN
  IF status \in {"ready", "completed"}
    THEN Emit(r, CashierRoom(RestaurantId), Event("order-ready-for-payment", orderId, 0, status))
    ELSE r

\* PATCH /api/admin/orders/:orderId/status (updateOrderStatus).
\* Step 1: the checks of the body, then Order.findOne.
setStatus_find(p, orderId, status) ==
  /\ CanStart(p)
  /\ budget' = budget - 1
  /\ Goto(p,
       IF status \notin HttpValidStatuses THEN Answer("setStatus", "Invalid status value", 0, 0)
       ELSE IF orderId \notin OrderIds THEN Answer("setStatus", "Order not found", 0, 0)
       ELSE [Idle EXCEPT !.op = "setStatus", !.pc = "setStatus_update", !.orderId = orderId,
                         !.tableId = orders[orderId].table_id, !.status = status])
  /\ UNCHANGED <<tables, orders, guests, items, rooms, menu, socket>>

\* Step 2: order.update({ status }); without a table update the events and the
\* answer follow.
setStatus_update(p) ==
  /\ req[p].pc = "setStatus_update"
  /\ orders' = WriteStatus(orders, req[p].orderId, req[p].status)
  /\ IF req[p].status \in TerminalStatuses
       THEN /\ Goto(p, [req[p] EXCEPT !.pc = "setStatus_table"])
            /\ UNCHANGED rooms
       ELSE /\ Goto(p, Answer("setStatus", "ok", req[p].orderId, 0))
            /\ rooms' = HttpStatusEmits(rooms, req[p].orderId, req[p].status)
  /\ UNCHANGED <<tables, guests, items, budget, menu, socket>>

\* Step 3: Table.update({status: 'available'}), the events and the answer.
setStatus_table(p) ==
  /\ req[p].pc = "setStatus_table"
  /\ tables' = ReleaseTable(tables, req[p].tableId)
  /\ rooms' = HttpStatusEmits(rooms, req[p].orderId, req[p].status)
  /\ Goto(p, Answer("setStatus", "ok", req[p].orderId, 0))
  /\ UNCHANGED <<orders, guests, items, budget, menu, socket>>

\* Step 3 when Table.update throws: catchAsync answers with the error; the events
\* are not emitted and the order keeps the status written in step 2.
setStatus_tableFails(p) ==
  /\ req[p].pc = "setStatus_table"
  /\ Goto(p, Answer("setStatus", "Internal error", req[p].orderId, 0))
  /\ UNCHANGED <<tables, orders, guests, items, budget, rooms, menu, socket>>

\* socket event update-order-status (setupKitchenHandlers): the same steps with
\* its own list of valid statuses.
socketStatus_find(p, orderId, status) ==
  /\ CanStart(p)
  /\ budget' = budget - 1
  /\ Goto(p,
       IF status \notin SocketValidStatuses THEN Answer("socketStatus", "Invalid status", 0, 0)
       ELSE IF orderId \notin OrderIds THEN Answer("socketStatus", "Order not found", 0, 0)
       ELSE [Idle EXCEPT !.op = "socketStatus", !.pc = "socketStatus_update",
                         !.orderId = orderId, !.tableId = orders[orderId].table_id,
                         !.status = status])
  /\ UNCHANGED <<tables, orders, guests, items, rooms, menu, socket>>

socketStatus_update(p) ==
  /\ req[p].pc = "socketStatus_update"
  /\ orders' = WriteStatus(orders, req[p].orderId, req[p].status)
  /\ IF req[p].status \in TerminalStatuses
       THEN /\ Goto(p, [req[p] EXCEPT !.pc = "socketStatus_table"])
            /\ UNCHANGED rooms
       ELSE /\ Goto(p, Answer("socketStatus", "ok", req[p].orderId, 0))
            /\ rooms' = SocketStatusEmits(rooms, req[p].orderId, req[p].status)
  /\ UNCHANGED <<tables, guests, items, budget, menu, socket>>

socketStatus_table(p) ==
  /\ req[p].pc = "socketStatus_table"
  /\ tables' = ReleaseTable(tables, req[p].tableId)
  /\ rooms' = SocketStatusEmits(rooms, req[p].orderId, req[p].status)
  /\ Goto(p, Answer("socketStatus", "ok", req[p].orderId, 0))
  /\ UNCHANGED <<orders, guests, items, budget, menu, socket>>

\* the same step when Table.update throws: the catch block sends the error to the
\* sender's socket only.
socketStatus_tableFails(p) ==
  /\ req[p].pc = "socketStatus_table"
  /\ Goto(p, Answer("socketStatus", "Failed to update order status", req[p].orderId, 0))
  /\ UNCHANGED <<tables, orders, guests, items, budget, rooms, menu, socket>>

\* order ids a request names: the stored orders and one unknown id
OrderInputs == 1..(Len(orders) + 1)

\* ------------------------------------------------------------ order items
\* the items of an order that are stored now (include: OrderItem as 'items')
ItemsOfOrder(its, orderId) ==
  {i \in DOMAIN its : its[i].order_id = orderId /\ ~its[i].deleted}

RECURSIVE SumSubtotals(_, _)
\* order.items.reduce((sum, item) => sum + parseFloat(item.subtotal), 0)
SumSubtotals(its, S) ==
  IF S = {} THEN 0
  ELSE LET i == CHOOSE x \in S : TRUE IN its[i].subtotal + SumSubtotals(its, S \ {i})

\* x.toFixed(2) of a non-negative amount given in hundredths of a cent: the cents
\* it stores, rounded half up
toFixed2(x) == (x + 50) \div 100

\* The amounts are IEEE-754 doubles.  With the rates of Restaurant, these are the
\* subtotals (in cents, up to 10.00) for which the exact value of subtotal +
\* taxAmount + serviceCharge lies on a half cent and the double that the sum yields
\* lies below it (0.75 + 0.10500000000000001 + 0.09 is 0.94499999999999995...); for
\* no subtotal up to 10.00 does the double of subtotal, taxAmount or serviceCharge
\* fall on the other side of a half cent than its exact value.  Larger subtotals of
\* this model are multiples of 50.00, where no amount lies on a half cent.
SumBelowHalfCent == {75, 125, 225, 275, 325, 425, 575, 725, 825, 925}

\* totalAmount.toFixed(2): toFixed rounds the value of the double, so a sum that
\* lies below its exact half cent is rounded down
toFixedSum(subtotal, x) == IF subtotal \in SumBelowHalfCent THEN x \div 100 ELSE toFixed2(x)

\* recalculateOrderTotals, the computation: the four amounts it stores (cents)
calculateOrderTotals(its, orderId) ==
  LET subtotal == SumSubtotals(its, ItemsOfOrder(its, orderId))
      taxAmount == subtotal * Restaurant.tax_rate
      serviceCharge == subtotal * Restaurant.service_charge_rate
      totalAmount == subtotal * 100 + taxAmount + serviceCharge
  IN [subtotal |-> toFixed2(subtotal * 100), tax_amount |-> toFixed2(taxAmount),
      service_charge |-> toFixed2(serviceCharge),
      total_amount |-> toFixedSum(subtotal, totalAmount)]

\* recalculateOrderTotals, order.update({subtotal, tax_amount, service_charge, total_amount})
WriteTotals(ords, orderId, t) ==
  [ords EXCEPT ![orderId].subtotal = t.subtotal, ![orderId].tax_amount = t.tax_amount,
               ![orderId].service_charge = t.service_charge,
               ![orderId].total_amount = t.total_amount]

\* a faulty insert: the row replaces a stored item of the same order and menu item
\* (an upsert) instead of being added
InsertItemUpsert(its, row) ==
  LET same == {i \in DOMAIN its : /\ its[i].order_id = row.order_id
                                  /\ its[i].menu_item_id = row.menu_item_id
                                  /\ ~its[i].deleted} IN
  IF same = {} THEN Append(its, row) ELSE [its EXCEPT ![Max(same)] = row]

\* OrderItem.create of addItemToOrder: the stored items with the new row
InsertItem(its, row) == Append(its, row)

\* orderItem.update({quantity, subtotal}): an UPDATE by id, no row when it was deleted
UpdateItemRow(its, itemId, quantity, subtotal) ==
  IF its[itemId].deleted THEN its
  ELSE [its EXCEPT ![itemId].quantity = quantity, ![itemId].subtotal = subtotal]

\* orderItem.destroy(): a DELETE by id
DestroyItem(its, itemId) == [its EXCEPT ![itemId].deleted = TRUE]

\* the check of a guest request's session: the answer with the error, or the
\* request going on at `next` with the guest and the order of the session
SessionChecked(op, sessionToken, next, base) ==
  LET v == validateGuestSession(guests, orders, sessionToken) IN
  IF v # "ok" THEN Answer(op, v, 0, 0)
  ELSE [base EXCEPT !.op = op, !.pc = next, !.guestId = sessionToken,
                    !.orderId = guests[sessionToken].order_id]

\* POST /api/orders/items (addItemToOrder).
\* Step 1: the checks of the body, then validateGuestSession.
addItem_validate(p, sessionToken, menuItemId, quantity) ==
  /\ CanStart(p)
  /\ budget' = budget - 1
  /\ Goto(p,
       IF sessionToken = 0 \/ quantity = 0
         THEN Answer("addItem", "Session token, menu item ID, and quantity are required", 0, 0)
       ELSE IF quantity < 1 THEN Answer("addItem", "Quantity must be at least 1", 0, 0)
       ELSE SessionChecked("addItem", sessionToken, "addItem_findMenuItem",
                           [Idle EXCEPT !.menuItemId = menuItemId, !.quantity = quantity]))
  /\ UNCHANGED <<tables, orders, guests, items, rooms, menu, socket>>

\* Step 2: MenuItem.findByPk; unitPrice = parseFloat(menuItem.price).
addItem_findMenuItem(p) ==
  /\ req[p].pc = "addItem_findMenuItem"
  /\ LET m == req[p].menuItemId IN
     Goto(p,
       IF m \notin DOMAIN menu THEN Answer("addItem", "Menu item not found", 0, 0)
       ELSE IF ~menu[m].is_available THEN Answer("addItem", "Menu item unavailable", 0, 0)
       ELSE [req[p] EXCEPT !.unitPrice = menu[m].price, !.pc = "addItem_create"])
  /\ UNCHANGED <<tables, orders, guests, items, budget, rooms, menu, socket>>

\* Step 3: OrderItem.create with subtotal = unitPrice * quantity.
addItem_create(p) ==
  /\ req[p].pc = "addItem_create"
  /\ items' = InsertItem(items,
       [order_id |-> req[p].orderId, menu_item_id |-> req[p].menuItemId,
        added_by_guest_id |-> req[p].guestId, quantity |-> req[p].quantity,
        unit_price |-> req[p].unitPrice, subtotal |-> req[p].unitPrice * req[p].quantity,
        deleted |-> FALSE])
  /\ Goto(p, [req[p] EXCEPT !.itemId = Len(items) + 1, !.pc = "recalc_read"])
  /\ UNCHANGED <<tables, orders, guests, budget, rooms, menu, socket>>

\* recalculateOrderTotals, first await: Order.findByPk with its items and restaurant,
\* then the sums.
recalculateOrderTotals_read(p) ==
  /\ req[p].pc = "recalc_read"
  /\ Goto(p, [req[p] EXCEPT !.calc = calculateOrderTotals(items, req[p].orderId),
              !.pc = "recalc_write"])
  /\ UNCHANGED <<tables, orders, guests, items, budget, rooms, menu, socket>>

\* recalculateOrderTotals, second await: order.update of the four amounts.  Back in
\* updateOrderItem and removeOrderItem the event and the answer follow at once;
\* addItemToOrder reads the created item first.
recalculateOrderTotals_write(p) ==
  /\ req[p].pc = "recalc_write"
  /\ orders' = WriteTotals(orders, req[p].orderId, req[p].calc)
  /\ IF req[p].op = "addItem"
       THEN /\ Goto(p, [req[p] EXCEPT !.calc = ZeroTotals, !.pc = "addItem_respond"])
            /\ UNCHANGED rooms
       ELSE /\ Goto(p, Answer(req[p].op, "ok", req[p].orderId, 0))
            /\ rooms' = Emit(rooms, OrderRoom(req[p].orderId),
                 Event(IF req[p].op = "updateItem" THEN "item-updated" ELSE "item-removed",
                       req[p].orderId, req[p].itemId, ""))
  /\ UNCHANGED <<tables, guests, items, budget, menu, socket>>

\* recalculateOrderTotals when Order.findByPk throws: catchAsync answers the request
\* with the error; the item written before stays as written and no event is sent.
recalculateOrderTotals_readFails(p) ==
  /\ req[p].pc = "recalc_read"
  /\ Goto(p, Answer(req[p].op, "Internal error", req[p].orderId, 0))
  /\ UNCHANGED <<tables, orders, guests, items, budget, rooms, menu, socket>>

\* recalculateOrderTotals when order.update throws: the same.
recalculateOrderTotals_writeFails(p) ==
  /\ req[p].pc = "recalc_write"
  /\ Goto(p, Answer(req[p].op, "Internal error", req[p].orderId, 0))
  /\ UNCHANGED <<tables, orders, guests, items, budget, rooms, menu, socket>>

\* Step 6 of addItemToOrder: OrderItem.findByPk of the created item, the item-added
\* event and the 201 answer.
addItem_respond(p) ==
  /\ req[p].pc = "addItem_respond"
  /\ rooms' = Emit(rooms, OrderRoom(req[p].orderId),
                   Event("item-added", req[p].orderId, req[p].itemId, ""))
  /\ Goto(p, Answer("addItem", "ok", req[p].orderId, 0))
  /\ UNCHANGED <<tables, orders, guests, items, budget, menu, socket>>

\* an item lookup without the check of the order
FoundItemOfAnyOrder(its, itemId, orderId) ==
  IF itemId \notin DOMAIN its \/ its[itemId].deleted THEN "Order item not found" ELSE "ok"

\* the item lookup of updateOrderItem and removeOrderItem: OrderItem.findByPk and
\* the check that the item belongs to the session's order
FoundItem(its, itemId, orderId) ==
  IF itemId \notin DOMAIN its \/ its[itemId].deleted THEN "Order item not found"
  ELSE IF its[itemId].order_id # orderId THEN "This item does not belong to your order"
  ELSE "ok"

\* a price lookup that takes the present price of the item's menu row
MenuPriceOfItem(its, mn, itemId) == mn[its[itemId].menu_item_id].price

\* parseFloat(orderItem.unit_price) of updateOrderItem: the price stored with the item
ItemUnitPrice(its, mn, itemId) == its[itemId].unit_price

\* PATCH /api/orders/items/:itemId (updateOrderItem).
\* Step 1: the checks of the body, then validateGuestSession.
updateItem_validate(p, sessionToken, itemId, quantity) ==
  /\ CanStart(p)
  /\ budget' = budget - 1
  /\ Goto(p,
       IF sessionToken = 0 \/ quantity = 0
         THEN Answer("updateItem", "Session token and quantity are required", 0, 0)
       ELSE IF quantity < 1 THEN Answer("updateItem", "Quantity must be at least 1", 0, 0)
       ELSE SessionChecked("updateItem", sessionToken, "updateItem_findItem",
                           [Idle EXCEPT !.itemId = itemId, !.quantity = quantity]))
  /\ UNCHANGED <<tables, orders, guests, items, rooms, menu, socket>>

\* Step 2: OrderItem.findByPk and the ownership check.
updateItem_findItem(p) ==
  /\ req[p].pc = "updateItem_findItem"
  /\ LET f == FoundItem(items, req[p].itemId, req[p].orderId) IN
     Goto(p,
       IF f # "ok" THEN Answer("updateItem", f, 0, 0)
       ELSE [req[p] EXCEPT !.unitPrice = ItemUnitPrice(items, menu, req[p].itemId),
                           !.pc = "updateItem_update"])
  /\ UNCHANGED <<tables, orders, guests, items, budget, rooms, menu, socket>>

\* Step 3: orderItem.update({quantity, subtotal: unit_price * quantity}).
updateItem_update(p) ==
  /\ req[p].pc = "updateItem_update"
  /\ items' = UpdateItemRow(items, req[p].itemId, req[p].quantity,
                            req[p].unitPrice * req[p].quantity)
  /\ Goto(p, [req[p] EXCEPT !.pc = "recalc_read"])
  /\ UNCHANGED <<tables, orders, guests, budget, rooms, menu, socket>>

\* DELETE /api/orders/items/:itemId (removeOrderItem).
\* Step 1: the check of the body, then validateGuestSession.
removeItem_validate(p, sessionToken, itemId) ==
  /\ CanStart(p)
  /\ budget' = budget - 1
  /\ Goto(p,
       IF sessionToken = 0 THEN Answer("removeItem", "Session token is required", 0, 0)
       ELSE SessionChecked("removeItem", sessionToken, "removeItem_findItem",
                           [Idle EXCEPT !.itemId = itemId]))
  /\ UNCHANGED <<tables, orders, guests, items, rooms, menu, socket>>

\* Step 2: OrderItem.findByPk and the ownership check.
removeItem_findItem(p) ==
  /\ req[p].pc = "removeItem_findItem"
  /\ LET f == FoundItem(items, req[p].itemId, req[p].orderId) IN
     Goto(p,
       IF f # "ok" THEN Answer("removeItem", f, 0, 0)
       ELSE [req[p] EXCEPT !.pc = "removeItem_destroy"])
  /\ UNCHANGED <<tables, orders, guests, items, budget, rooms, menu, socket>>

\* Step 3: orderItem.destroy().
removeItem_destroy(p) ==
  /\ req[p].pc = "removeItem_destroy"
  /\ items' = DestroyItem(items, req[p].itemId)
  /\ Goto(p, [req[p] EXCEPT !.pc = "recalc_read"])
  /\ UNCHANGED <<tables, orders, guests, budget, rooms, menu, socket>>

\* ------------------------------------------------------------------ submit
\* the checks of submitOrder on the order it read: "ok" or the error
SubmitCheck(ords, its, orderId) ==
  IF ItemsOfOrder(its, orderId) = {} THEN "Cannot submit an empty order"
  ELSE IF ords[orderId].status # "pending" THEN "Invalid order status"
  ELSE "ok"

\* POST /api/orders/:orderId/submit (submitOrder).
\* Step 1: validateGuestSession and the check of the order id of the path.
submitOrder_validate(p, orderId, sessionToken) ==
  /\ CanStart(p)
  /\ budget' = budget - 1
  /\ LET v == validateGuestSession(guests, orders, sessionToken) IN
     Goto(p,
       IF v # "ok" THEN Answer("submitOrder", v, 0, 0)
       ELSE IF guests[sessionToken].order_id # orderId
         THEN Answer("submitOrder", "Access denied", 0, 0)
       ELSE [Idle EXCEPT !.op = "submitOrder", !.pc = "submitOrder_findOrder",
                         !.guestId = sessionToken, !.orderId = orderId])
  /\ UNCHANGED <<tables, orders, guests, items, rooms, menu, socket>>

\* Step 2: Order.findByPk with its items; the checks for items and status.
submitOrder_findOrder(p) ==
  /\ req[p].pc = "submitOrder_findOrder"
  /\ LET c == SubmitCheck(orders, items, req[p].orderId) IN
     Goto(p,
       IF c # "ok" THEN Answer("submitOrder", c, 0, 0)
       ELSE [req[p] EXCEPT !.pc = "submitOrder_update"])
  /\ UNCHANGED <<tables, orders, guests, items, budget, rooms, menu, socket>>

\* Step 3: order.update({status: 'confirmed'}), the events and the answer.
submitOrder_update(p) ==
  /\ req[p].pc = "submitOrder_update"
  /\ orders' = WriteStatus(orders, req[p].orderId, "confirmed")
  /\ rooms' = Emit(Emit(rooms, OrderRoom(req[p].orderId),
                        Event("order-submitted", req[p].orderId, 0, "confirmed")),
                   KitchenRoom(orders[req[p].orderId].restaurant_id),
                   Event("new-order", req[p].orderId, 0, ""))
  /\ Goto(p, Answer("submitOrder", "ok", req[p].orderId, 0))
  /\ UNCHANGED <<tables, guests, items, budget, menu, socket>>

\* --------------------------------------------------- guest socket (order rooms)
\* socket.to(room).emit(...): the other sockets of the room receive the event,
\* whether or not the sender has joined the room
Relay(rms, orderId, name) == Emit(rms, OrderRoom(orderId), Event(name, orderId, 0, ""))

\* a synchronous handler of the socket ran: what the model keeps of it
Handled(op, orderId) ==
  answers' = answers (+) SetToBag({Answered(Answer(op, "ok", orderId, 0))})

\* socket event join-order.  Step 1: the check of the payload, then
\* validateGuestSession.
joinOrder_validate(p, sessionToken) ==
  /\ socket.connected
  /\ CanStart(p)
  /\ budget' = budget - 1
  /\ Goto(p,
       IF sessionToken = 0 THEN Answer("joinOrder", "Session token is required", 0, 0)
       ELSE SessionChecked("joinOrder", sessionToken, "joinOrder_join", Idle))
  /\ UNCHANGED <<tables, orders, guests, items, rooms, menu, socket>>

\* Step 2: socket.join of the order's room, socket.data, guest-connected to the
\* others in the room and joined-order to the sender.
joinOrder_join(p) ==
  /\ req[p].pc = "joinOrder_join"
  /\ socket' = [socket EXCEPT !.joined = IF socket.connected THEN @ \cup {req[p].orderId} ELSE @,
                              !.orderId = req[p].orderId, !.guestId = req[p].guestId]
  /\ rooms' = Relay(rooms, req[p].orderId, "guest-connected")
  /\ Goto(p, Answer("joinOrder", "ok", req[p].orderId, req[p].guestId))
  /\ UNCHANGED <<tables, orders, guests, items, budget, menu>>

\* socket event leave-order: with an order id in socket.data the socket leaves that
\* order's room and the others are told; socket.data stays as it is.
leaveOrder ==
  /\ socket.connected
  /\ budget > 0
  /\ budget' = budget - 1
  /\ IF socket.orderId # 0
       THEN /\ socket' = [socket EXCEPT !.joined = @ \ {socket.orderId}]
            /\ rooms' = Relay(rooms, socket.orderId, "guest-disconnected")
       ELSE UNCHANGED <<socket, rooms>>
  /\ Handled("leaveOrder", socket.orderId)
  /\ UNCHANGED <<tables, orders, guests, items, req, menu>>

\* socket events guest-activity and item-adding: with an order id in socket.data
\* the event is passed on to that order's room.
relayActivity(name) ==
  /\ socket.connected
  /\ budget > 0
  /\ budget' = budget - 1
  /\ rooms' = IF socket.orderId # 0 THEN Relay(rooms, socket.orderId, name) ELSE rooms
  /\ Handled("relayActivity", socket.orderId)
  /\ UNCHANGED <<tables, orders, guests, items, req, menu, socket>>

\* disconnect: the socket is out of every room; with an order id and a guest name
\* in socket.data the others of that order's room are told.
disconnect ==
  /\ socket.connected
  /\ budget > 0
  /\ budget' = budget - 1
  /\ socket' = [socket EXCEPT !.connected = FALSE, !.joined = {}]
  /\ rooms' = IF socket.orderId # 0 THEN Relay(rooms, socket.orderId, "guest-disconnected")
              ELSE rooms
  /\ Handled("disconnect", socket.orderId)
  /\ UNCHANGED <<tables, orders, guests, items, req, menu>>

\* ------------------------------------------------------------ admin: tables
\* Table.status ENUM, and validStatuses of updateTableStatus
TableStatuses == {"available", "occupied", "reserved", "maintenance"}
\* status values an admin request carries ("" is an omitted status)
TableStatusInputs == TableStatuses \cup {"", "bogus"}
\* table ids an admin request names: the stored tables and one unknown id
TableInputs == 1..(Len(tables) + 1)

\* UPDATE tables SET status = ... WHERE table_id = id
WriteTableStatus(tbls, id, status) == [tbls EXCEPT ![id].status = status]

\* the answer of an admin request on a table
TableAnswer(op, result, id) == [Answer(op, result, 0, 0) EXCEPT !.tableId = id]

\* PATCH /api/admin/tables/:id/status (updateTableStatus): the checks of the body,
\* then the UPDATE (no row: 404) and the answer.
updateTableStatus(p, id, status) ==
  /\ CanStart(p)
  /\ budget' = budget - 1
  /\ IF status = "" THEN
       /\ Goto(p, TableAnswer("updateTableStatus", "Status is required", id))
       /\ UNCHANGED tables
     ELSE IF status \notin TableStatuses THEN
       /\ Goto(p, TableAnswer("updateTableStatus", "Invalid status value", id))
       /\ UNCHANGED tables
     ELSE IF id \notin DOMAIN tables THEN
       /\ Goto(p, TableAnswer("updateTableStatus", "Table not found", id))
       /\ UNCHANGED tables
     ELSE
       /\ tables' = WriteTableStatus(tables, id, status)
       /\ Goto(p, TableAnswer("updateTableStatus", "ok", id))
  /\ UNCHANGED <<orders, guests, items, rooms, menu, socket>>

\* PATCH /api/admin/tables/:id (updateTable) with a body that carries at most the
\* field status.  Step 1: the SELECT of the table, then the check for fields.
updateTable_select(p, id, status) ==
  /\ CanStart(p)
  /\ budget' = budget - 1
  /\ Goto(p,
       IF id \notin DOMAIN tables THEN TableAnswer("updateTable", "Table not found", id)
       ELSE IF status = "" THEN TableAnswer("updateTable", "No valid fields to update", id)
       ELSE [Idle EXCEPT !.op = "updateTable", !.pc = "updateTable_update",
                         !.tableId = id, !.status = status])
  /\ UNCHANGED <<tables, orders, guests, items, rooms, menu, socket>>

\* Step 2: the UPDATE and the answer.  The handler does not check the value; the
\* store rejects one that is not in the ENUM.
updateTable_update(p) ==
  /\ req[p].pc = "updateTable_update"
  /\ IF req[p].status \notin TableStatuses
       THEN /\ Goto(p, TableAnswer("updateTable", "Internal error", req[p].tableId))
            /\ UNCHANGED tables
       ELSE /\ tables' = WriteTableStatus(tables, req[p].tableId, req[p].status)
            /\ Goto(p, TableAnswer("updateTable", "ok", req[p].tableId))
  /\ UNCHANGED <<orders, guests, items, budget, rooms, menu, socket>>

\* ------------------------------------------------------------------- menu
\* bodies of PUT /api/admin/menu/:itemId: the fields price and isAvailable, each
\* given or left out (the other fields of the body are not kept by the model)
MenuBodies ==
  {[hasPrice |-> TRUE, price |-> 6000, hasAvailable |-> FALSE, isAvailable |-> FALSE],
   [hasPrice |-> TRUE, price |-> -100, hasAvailable |-> FALSE, isAvailable |-> FALSE],
   [hasPrice |-> FALSE, price |-> 0, hasAvailable |-> TRUE, isAvailable |-> TRUE],
   [hasPrice |-> FALSE, price |-> 0, hasAvailable |-> TRUE, isAvailable |-> FALSE],
   [hasPrice |-> FALSE, price |-> 0, hasAvailable |-> FALSE, isAvailable |-> FALSE]}

\* UPDATE menu_items SET ... WHERE menu_item_id = itemId: the given fields are set
UpdateMenuRow(mn, itemId, body) ==
  [mn EXCEPT ![itemId].price = IF body.hasPrice THEN body.price ELSE @,
             ![itemId].is_available = IF body.hasAvailable THEN body.isAvailable ELSE @]

\* PUT /api/admin/menu/:itemId (updateMenuItem).
\* Step 1: the SELECT of the menu item, then the checks of the body.
updateMenuItem_check(p, itemId, body) ==
  /\ CanStart(p)
  /\ budget' = budget - 1
  /\ Goto(p,
       IF itemId \notin DOMAIN menu THEN Answer("updateMenuItem", "Menu item not found", 0, 0)
       ELSE IF body.hasPrice /\ body.price < 0
         THEN Answer("updateMenuItem", "Price must be a positive number", 0, 0)
       ELSE IF ~body.hasPrice /\ ~body.hasAvailable
         THEN Answer("updateMenuItem", "No fields to update", 0, 0)
       ELSE [Idle EXCEPT !.op = "updateMenuItem", !.pc = "updateMenuItem_update",
                         !.menuItemId = itemId, !.body = body])
  /\ UNCHANGED <<tables, orders, guests, items, rooms, menu, socket>>

\* Step 2: the UPDATE of the row and the answer.
updateMenuItem_update(p) ==
  /\ req[p].pc = "updateMenuItem_update"
  /\ menu' = UpdateMenuRow(menu, req[p].menuItemId, req[p].body)
  /\ Goto(p, Answer("updateMenuItem", "ok", 0, 0))
  /\ UNCHANGED <<tables, orders, guests, items, budget, rooms, socket>>

\* ---------------------------------------------------------------- bill split
\* the guests that added an item of the order (the keys of guestTotals)
GuestsWithItems(its, orderId) ==
  {its[i].added_by_guest_id : i \in ItemsOfOrder(its, orderId)}

\* the items of the order a guest added
ItemsOfGuest(its, orderId, guestId) ==
  {i \in ItemsOfOrder(its, orderId) : its[i].added_by_guest_id = guestId}

\* one entry of guestBills: the guest's subtotal with the rates of the restaurant
\* applied to it, each amount rounded with toFixed(2) (cents)
GuestBill(its, orderId, guestId) ==
  LET subtotal == SumSubtotals(its, ItemsOfGuest(its, orderId, guestId))
      taxAmount == subtotal * Restaurant.tax_rate
      serviceCharge == subtotal * Restaurant.service_charge_rate
      total == subtotal * 100 + taxAmount + serviceCharge
  IN [subtotal |-> toFixed2(subtotal * 100), taxAmount |-> toFixed2(taxAmount),
      serviceCharge |-> toFixed2(serviceCharge), total |-> toFixedSum(subtotal, total)]

\* OrderService.calculateBillSplit: the bills by guest id and the stored total of
\* the order
calculateBillSplit(its, ords, orderId) ==
  [guestBills |-> [g \in GuestsWithItems(its, orderId) |-> GuestBill(its, orderId, g)],
   overallTotal |-> ords[orderId].total_amount]

\* a call of calculateBillSplit: its one await is Order.findByPk with the items and
\* the restaurant; an unknown order makes it throw
calculateBillSplit_read(p, orderId) ==
  /\ CanStart(p)
  /\ budget' = budget - 1
  /\ Goto(p, IF orderId \notin OrderIds THEN Answer("billSplit", "Order not found", 0, 0)
             ELSE Answer("billSplit", "ok", orderId, 0))
  /\ UNCHANGED <<tables, orders, guests, items, rooms, menu, socket>>

\* session tokens a guest request carries: none (0), the issued ones, one never issued
TokenInputs == 0..(Len(guests) + 1)
\* item ids a request names: the ids given out so far and one unknown id
ItemInputs == 1..(Len(items) + 1)
\* quantities a request carries
QtyInputs == (-1)..MaxQty

\* every step of addItemToOrder up to the recomputation of the totals
AddSteps(p) ==
  \/ \E tok \in TokenInputs, m \in MenuInputs, q \in QtyInputs : addItem_validate(p, tok, m, q)
  \/ addItem_findMenuItem(p)
  \/ addItem_create(p)
  \/ addItem_respond(p)

\* the two steps of recalculateOrderTotals
RecalcSteps(p) ==
  \/ recalculateOrderTotals_read(p)
  \/ recalculateOrderTotals_write(p)

\* the recomputation failing at either of its awaits
RecalcFails(p) ==
  \/ recalculateOrderTotals_readFails(p)
  \/ recalculateOrderTotals_writeFails(p)

\* every step of updateOrderItem and removeOrderItem up to the recomputation
ChangeSteps(p) ==
  \/ \E tok \in TokenInputs, i \in ItemInputs, q \in QtyInputs : updateItem_validate(p, tok, i, q)
  \/ updateItem_findItem(p)
  \/ updateItem_update(p)
  \/ \E tok \in TokenInputs, i \in ItemInputs : removeItem_validate(p, tok, i)
  \/ removeItem_findItem(p)
  \/ removeItem_destroy(p)

\* every step of submitOrder
SubmitSteps(p) ==
  \/ \E o \in OrderInputs, tok \in TokenInputs : submitOrder_validate(p, o, tok)
  \/ submitOrder_findOrder(p)
  \/ submitOrder_update(p)

\* every step of join-order
JoinSteps(p) ==
  \/ \E tok \in TokenInputs : joinOrder_validate(p, tok)
  \/ joinOrder_join(p)

\* the synchronous handlers of the guest socket
SocketEvents ==
  \/ leaveOrder
  \/ \E name \in {"guest-activity-update", "item-being-added"} : relayActivity(name)
  \/ disconnect

\* every step of the admin's table requests
TableSteps(p) ==
  \/ \E t \in TableInputs, s \in TableStatusInputs : updateTableStatus(p, t, s)
  \/ \E t \in TableInputs, s \in TableStatusInputs : updateTable_select(p, t, s)
  \/ updateTable_update(p)

\* every step of updateMenuItem
MenuSteps(p) ==
  \/ \E m \in MenuInputs, b \in MenuBodies : updateMenuItem_check(p, m, b)
  \/ updateMenuItem_update(p)

\* a bill split of any order id
SplitSteps(p) == \E o \in OrderInputs : calculateBillSplit_read(p, o)

\* qrToken values a scan request carries: missing, unknown, or a table's code
QrInputs == {"", "qr-unknown"} \cup {tables[t].qr_code : t \in DOMAIN tables}

\* every step of a scan
ScanSteps(p) ==
  \/ \E q \in QrInputs, name \in NameInputs : scan_validateQRCode(p, q, name)
  \/ scan_findOrder(p)
  \/ scan_orderNumber(p)
  \/ scan_createOrder(p)
  \/ scan_occupyTable(p)
  \/ scan_countGuests(p)
  \/ scan_createGuest(p)

\* every step of a staff status change over HTTP
HttpStatusSteps(p) ==
  \/ \E o \in OrderInputs, s \in StatusInputs : setStatus_find(p, o, s)
  \/ setStatus_update(p)
  \/ setStatus_table(p)

\* every step of a staff status change over the socket
SocketStatusSteps(p) ==
  \/ \E o \in OrderInputs, s \in StatusInputs : socketStatus_find(p, o, s)
  \/ socketStatus_update(p)
  \/ socketStatus_table(p)

StatusSteps(p) == HttpStatusSteps(p) \/ SocketStatusSteps(p)

\* ------------------------------------------------------------- initial states
\* the store after the tables were set up: no order yet
Init ==
  /\ tables = [t \in TableIds |-> [restaurant_id |-> RestaurantId, qr_code |-> QrCodes[t],
                                   status |-> "available"]]
  /\ orders = <<>>
  /\ guests = <<>>
  /\ items = <<>>
  /\ req = [p \in Procs |-> Idle]
  /\ budget = MaxScanRequests
  /\ answers = EmptyBag
  /\ rooms = << >>
  /\ menu = Menu
  /\ socket = NoSocket

\* scans and staff status changes
NextSession == \E p \in Procs : ScanSteps(p) \/ StatusSteps(p)
SpecSession == Init /\ [][NextSession]_vars

\* the item guest 1 adds with menu item 1 and quantity 1
FirstItem ==
  [order_id |-> 1, menu_item_id |-> 1, added_by_guest_id |-> 1, quantity |-> 1,
   unit_price |-> Menu[1].price, subtotal |-> Menu[1].price, deleted |-> FALSE]

\* the store after two guests scanned the code of table 1 one after the other,
\* without names: order 1 is pending, and either has no item yet or guest 1 has
\* added one item (with the totals stored for it); answers holds the answers of
\* these requests
OpenOrder ==
  /\ tables = [t \in TableIds |-> [restaurant_id |-> RestaurantId, qr_code |-> QrCodes[t],
                                   status |-> IF t = 1 THEN "occupied" ELSE "available"]]
  /\ guests = <<[order_id |-> 1, guest_name |-> AutoNames[1]],
                [order_id |-> 1, guest_name |-> AutoNames[2]]>>
  /\ items \in {<<>>, <<FirstItem>>}
  /\ orders = <<WriteTotals(<<NewOrder(RestaurantId, 1, <<RestaurantId, 1>>)>>, 1,
                             calculateOrderTotals(items, 1))[1]>>
  /\ req = [p \in Procs |-> Idle]
  /\ answers = SetToBag({Answered(ScanAnswer("ok", 1, 1, g)) : g \in {1, 2}}
                        \cup {Answered(Answer("addItem", "ok", 1, 0)) : i \in DOMAIN items})
  /\ menu = Menu
  /\ socket = NoSocket

\* the open order with no socket joined to any room
InitOrder ==
  /\ OpenOrder
  /\ budget = MaxOrderRequests
  /\ rooms = << >>

\* guest requests on the order and staff status changes
NextOrder ==
  \E p \in Procs : AddSteps(p) \/ RecalcSteps(p) \/ ChangeSteps(p) \/ SubmitSteps(p) \/ StatusSteps(p)
SpecOrder == InitOrder /\ [][NextOrder]_vars

\* addItemToOrder requests and staff status changes over HTTP
NextAdd == \E p \in Procs : AddSteps(p) \/ RecalcSteps(p) \/ HttpStatusSteps(p)
SpecAdd == InitOrder /\ [][NextAdd]_vars

\* the store of InitOrder while the sockets of both guests have joined the room of
\* order 1 (join-order) and staff sockets have joined the kitchen and the cashier
\* room of the restaurant (join-kitchen with role kitchen and cashier)
Listening ==
  rooms = [r \in {OrderRoom(1), KitchenRoom(RestaurantId), CashierRoom(RestaurantId)} |-> <<>>]

InitRooms ==
  /\ OpenOrder
  /\ budget = MaxOrderRequests
  /\ Listening

\* guest requests on the order and staff status changes, with listeners in the rooms
SpecRooms == InitRooms /\ [][NextOrder]_vars

\* the same with the budget MaxSoloRequests
InitEmit ==
  /\ OpenOrder
  /\ budget = MaxSoloRequests
  /\ Listening
SpecEmit == InitEmit /\ [][NextOrder]_vars

\* the open order after staff moved it to any status over HTTP (a terminal status
\* released the table)
InitAnyStatus ==
  \E s \in Statuses :
    /\ tables = [t \in TableIds |->
                   [restaurant_id |-> RestaurantId, qr_code |-> QrCodes[t],
                    status |-> IF t = 1 /\ s \notin TerminalStatuses THEN "occupied"
                               ELSE "available"]]
    /\ guests = <<[order_id |-> 1, guest_name |-> AutoNames[1]],
                  [order_id |-> 1, guest_name |-> AutoNames[2]]>>
    /\ items \in {<<>>, <<FirstItem>>}
    /\ orders = <<[WriteTotals(<<NewOrder(RestaurantId, 1, <<RestaurantId, 1>>)>>, 1,
                                calculateOrderTotals(items, 1))[1] EXCEPT !.status = s]>>
    /\ req = [p \in Procs |-> Idle]
    /\ budget = MaxSoloRequests
    /\ answers = SetToBag({Answered(ScanAnswer("ok", 1, 1, g)) : g \in {1, 2}}
                          \cup {Answered(Answer("addItem", "ok", 1, 0)) : i \in DOMAIN items}
                          \cup {Answered(Answer("setStatus", "ok", 1, 0)) : i \in {s} \ {"pending"}})
    /\ rooms = << >>
    /\ menu = Menu
    /\ socket = NoSocket

\* the store with two orders of table 1 that both have an active session: guest 1
\* scanned (order 1) and added an item, staff set order 1 to ready, then guest 2
\* scanned (order 2, as the lookup of the scan leaves ready orders out) and added an
\* item
TwoOrders ==
  /\ tables = [t \in TableIds |-> [restaurant_id |-> RestaurantId, qr_code |-> QrCodes[t],
                                   status |-> IF t = 1 THEN "occupied" ELSE "available"]]
  /\ guests = <<[order_id |-> 1, guest_name |-> AutoNames[1]],
                [order_id |-> 2, guest_name |-> AutoNames[1]]>>
  /\ items = <<FirstItem,
               [FirstItem EXCEPT !.order_id = 2, !.added_by_guest_id = 2]>>
  /\ orders = <<[WriteTotals(<<NewOrder(RestaurantId, 1, <<RestaurantId, 1>>)>>, 1,
                              calculateOrderTotals(items, 1))[1] EXCEPT !.status = "ready"],
                WriteTotals(<<NewOrder(RestaurantId, 1, <<RestaurantId, 2>>)>>, 1,
                            calculateOrderTotals(items, 2))[1]>>
  /\ req = [p \in Procs |-> Idle]
  /\ answers = SetToBag({Answered(ScanAnswer("ok", 1, o, o)) : o \in {1, 2}}
                        \cup {Answered(Answer("addItem", "ok", o, 0)) : o \in {1, 2}}
                        \cup {Answered(Answer("setStatus", "ok", 1, 0))})
  /\ menu = Menu
  /\ socket = NoSocket

\* these two orders with no socket joined to any room
InitTwoOrders ==
  /\ TwoOrders
  /\ budget = MaxOrderRequests
  /\ rooms = << >>

\* updateOrderItem and removeOrderItem requests of the guests of both orders
NextCross == \E p \in Procs : ChangeSteps(p) \/ RecalcSteps(p)
SpecCross == InitTwoOrders /\ [][NextCross]_vars

\* the item guest 1 added with menu item 2 (0.75) and quantity 1 while that menu
\* item was available
CheapItem ==
  [order_id |-> 1, menu_item_id |-> 2, added_by_guest_id |-> 1, quantity |-> 1,
   unit_price |-> Menu[2].price, subtotal |-> Menu[2].price, deleted |-> FALSE]

\* the open order 1 holding that item, with the totals stored for it
InitCheap ==
  /\ tables = [t \in TableIds |-> [restaurant_id |-> RestaurantId, qr_code |-> QrCodes[t],
                                   status |-> IF t = 1 THEN "occupied" ELSE "available"]]
  /\ guests = <<[order_id |-> 1, guest_name |-> AutoNames[1]],
                [order_id |-> 1, guest_name |-> AutoNames[2]]>>
  /\ items = <<CheapItem>>
  /\ orders = <<WriteTotals(<<NewOrder(RestaurantId, 1, <<RestaurantId, 1>>)>>, 1,
                             calculateOrderTotals(items, 1))[1]>>
  /\ req = [p \in Procs |-> Idle]
  /\ budget = MaxOrderRequests
  /\ answers = SetToBag({Answered(ScanAnswer("ok", 1, 1, g)) : g \in {1, 2}}
                        \cup {Answered(Answer("addItem", "ok", 1, 0))})
  /\ rooms = << >>
  /\ menu = Menu
  /\ socket = NoSocket

\* updateOrderItem and removeOrderItem requests on that order
SpecCheap == InitCheap /\ [][NextCross]_vars

\* guest requests and staff status changes on an order in any status
SpecToken == InitAnyStatus /\ [][NextOrder]_vars

\* staff status changes, where the table update of a terminal change may fail,
\* and scans of the table
NextStatus ==
  \E p \in Procs : \/ StatusSteps(p) \/ setStatus_tableFails(p) \/ socketStatus_tableFails(p)
                   \/ ScanSteps(p)
SpecStatus == InitOrder /\ [][NextStatus]_vars

\* the open order with the budget MaxScanRequests
InitSplit ==
  /\ OpenOrder
  /\ budget = MaxScanRequests
  /\ rooms = << >>

\* addItemToOrder requests and bill splits
NextSplit == \E p \in Procs : AddSteps(p) \/ RecalcSteps(p) \/ SplitSteps(p)
SpecSplit == InitSplit /\ [][NextSplit]_vars

\* updateOrderItem and removeOrderItem requests on the open order and menu updates
\* of the admin
NextMenu == \E p \in Procs : RecalcSteps(p) \/ ChangeSteps(p) \/ MenuSteps(p)
SpecMenu == InitOrder /\ [][NextMenu]_vars

\* the same with addItemToOrder requests
NextMenuAdd == \E p \in Procs : AddSteps(p) \/ RecalcSteps(p) \/ ChangeSteps(p) \/ MenuSteps(p)
SpecMenuAdd == InitOrder /\ [][NextMenuAdd]_vars

\* item requests of the guests, where the recomputation of the totals may fail
NextFault ==
  \E p \in Procs : AddSteps(p) \/ ChangeSteps(p) \/ RecalcSteps(p) \/ RecalcFails(p)
SpecFault == InitOrder /\ [][NextFault]_vars

\* the empty store of a restaurant with one table more
InitTwoTables ==
  /\ tables = [t \in 1..(NumTables + 1) |->
                 [restaurant_id |-> RestaurantId, qr_code |-> QrCodes[t], status |-> "available"]]
  /\ orders = <<>>
  /\ guests = <<>>
  /\ items = <<>>
  /\ req = [p \in Procs |-> Idle]
  /\ budget = MaxOrderRequests
  /\ answers = EmptyBag
  /\ rooms = << >>
  /\ menu = Menu
  /\ socket = NoSocket

\* scans of the tables
NextNumber == \E p \in Procs : ScanSteps(p)
SpecNumber == InitTwoTables /\ [][NextNumber]_vars

\* admin requests on the tables and staff status changes of the open order
NextTable == \E p \in Procs : TableSteps(p) \/ StatusSteps(p)
SpecTable == InitOrder /\ [][NextTable]_vars

\* guest requests that add items and submit the order, with listeners in the
\* rooms; no staff status change
NextSubmit == \E p \in Procs : AddSteps(p) \/ RecalcSteps(p) \/ SubmitSteps(p)
SpecSubmit == InitRooms /\ [][NextSubmit]_vars

\* the two orders while the sockets of other guests have joined the rooms of both,
\* and one more socket has connected
InitSocket ==
  /\ TwoOrders
  /\ budget = MaxSocketEvents
  /\ rooms = [r \in {OrderRoom(1), OrderRoom(2)} |-> <<>>]

\* the events of that socket
NextSocket == (\E p \in Procs : JoinSteps(p)) \/ SocketEvents
SpecSocket == InitSocket /\ [][NextSocket]_vars

\* every request of the order core
Next ==
  \/ \E p \in Procs : \/ ScanSteps(p) \/ AddSteps(p) \/ RecalcSteps(p) \/ ChangeSteps(p)
                   \/ SubmitSteps(p) \/ StatusSteps(p) \/ SplitSteps(p) \/ MenuSteps(p)
                   \/ setStatus_tableFails(p) \/ socketStatus_tableFails(p)
                   \/ RecalcFails(p) \/ TableSteps(p) \/ JoinSteps(p)
  \/ SocketEvents
Spec == Init /\ [][Next]_vars

\* ================================================================ claims
\* the rows of the items of an order, with their ids
ItemRows(its, orderId) ==
  {<<i, its[i]>> : i \in {j \in DOMAIN its : its[j].order_id = orderId /\ ~its[j].deleted}}

\* the four stored amounts of an order
StoredTotals(ords, orderId) ==
  <<ords[orderId].subtotal, ords[orderId].tax_amount, ords[orderId].service_charge,
    ords[orderId].total_amount>>

\* the orders of a table, and those in an active status
OrdersOfTable(t) == {o \in OrderIds : orders[o].table_id = t}
ActiveOrdersOfTable(t) == {o \in OrdersOfTable(t) : orders[o].status \in ActiveStatuses}

\* the answers of the scans of table t that passed validateQRCode
ScanAnswers(t) ==
  {a \in BagToSet(answers) : a.op = "scan" /\ a.tableId = t /\ a.result \in {"ok", "Internal error"}}
NumScanAnswers(t) == BagCardinality([a \in ScanAnswers(t) |-> answers[a]])

\* the only requests so far were two scans of table t, both answered
TwoScansOnly(t) ==
  /\ Quiescent
  /\ budget = MaxScanRequests - 2
  /\ NumScanAnswers(t) = 2

\* C1: when the only two requests on the empty store are two scans of one table, in
\* any interleaving, then once both are answered exactly one order exists for the
\* table and both scans succeeded and name that order.
C1_ConcurrentScansShareOneOrder ==
  \A t \in TableIds :
    TwoScansOnly(t) =>
      /\ Cardinality(OrdersOfTable(t)) = 1
      /\ \A a \in ScanAnswers(t) : a.result = "ok" /\ a.orderId \in OrdersOfTable(t)

\* C2: in every reachable state each table has at most one order whose status is
\* pending, confirmed, preparing or ready.
C2_AtMostOneActiveOrderPerTable ==
  \A t \in TableIds : Cardinality(ActiveOrdersOfTable(t)) <= 1

\* guest 1 added an item of 100.00 and guest 2 an item of 50.00 to the empty
\* order 1, these were the only requests (the answers are those of the two scans
\* and of the two addItem calls), and both are answered with success
TwoAddsDone ==
  /\ Quiescent
  /\ budget = MaxOrderRequests - 2
  /\ BagCardinality(answers) = 4
  /\ OkCount("addItem") = 2
  /\ Len(items) = 2
  /\ \E i, j \in DOMAIN items :
       /\ items[i].added_by_guest_id = 1 /\ items[i].subtotal = 10000
       /\ items[j].added_by_guest_id = 2 /\ items[j].subtotal = 5000

\* C3: after guest A's addItem of subtotal 100 and guest B's addItem of subtotal 50
\* on the same order have both completed, in any interleaving, the stored subtotal
\* of the order is 150.
C3_ConcurrentAddsSubtotal150 == TwoAddsDone => orders[1].subtotal = 15000

Abs(x) == IF x < 0 THEN -x ELSE x

\* C4: in every reachable state, for every order, the stored subtotal is the sum of
\* the subtotals of its items and the stored total is subtotal + tax + service charge
\* - discount within one cent.
C4_TotalsMatchItems ==
  \A o \in OrderIds :
    /\ orders[o].subtotal = SumSubtotals(items, ItemsOfOrder(items, o))
    /\ Abs(orders[o].total_amount - (orders[o].subtotal + orders[o].tax_amount
             + orders[o].service_charge - orders[o].discount_amount)) <= 1

C6_ItemsChangeOnlyWhilePending ==
  [][\A o \in OrderIds :
       orders[o].status \in {"confirmed", "preparing", "ready"} =>
         /\ ItemRows(items', o) = ItemRows(items, o)
         /\ StoredTotals(orders', o) = StoredTotals(orders, o)]_vars

\* C7: whenever submitOrder writes the status confirmed, the order has at least one
\* item at that moment.
C7_SubmitNeverConfirmsEmptyOrder ==
  [][\A p \in Procs :
       (req[p].pc = "submitOrder_update" /\ req'[p].pc = "idle") =>
         ItemsOfOrder(items, req[p].orderId) # {}]_vars

\* the place of a status in the lifecycle
StatusRank(s) ==
  CASE s = "pending" -> 1 [] s = "confirmed" -> 2 [] s = "preparing" -> 3
    [] s = "ready" -> 4 [] s = "served" -> 5 [] s = "completed" -> 6
    [] s = "cancelled" -> 7

\* C8: every change of an order's status moves it forward along pending, confirmed,
\* preparing, ready, served, completed, or to cancelled.
C8_StatusMovesForward ==
  [][\A o \in OrderIds :
       orders'[o].status # orders[o].status =>
         \/ orders'[o].status = "cancelled"
         \/ StatusRank(orders'[o].status) > StatusRank(orders[o].status)]_vars

\* C9: once an order's status is completed or cancelled it never changes again.
C9_TerminalStatusIsFinal ==
  [][\A o \in OrderIds :
       orders[o].status \in TerminalStatuses => orders'[o].status = orders[o].status]_vars

\* C10: while an order's status is completed or cancelled no step creates, alters or
\* deletes an item of it.
C10_TerminalOrderItemsFrozen ==
  [][\A o \in OrderIds :
       orders[o].status \in TerminalStatuses => ItemRows(items', o) = ItemRows(items, o)]_vars

\* the step answers the request of slot p with success
FinishesOk(p) ==
  /\ ~Free(p)
  /\ req'[p].pc = "idle"
  /\ LET a == Answered(Answer(req[p].op, "ok", req[p].orderId, 0)) IN
     CopiesIn(a, answers') = CopiesIn(a, answers) + 1

\* a staff request that asks for completed or cancelled is in slot p
TerminalChange(p) ==
  /\ req[p].op \in {"setStatus", "socketStatus"}
  /\ req[p].status \in TerminalStatuses

\* C11: whenever a status change to completed or cancelled (HTTP or socket) finishes
\* with success, the table of the order has status available.
C11_TerminalChangeReleasesTable ==
  [][\A p \in Procs :
       (TerminalChange(p) /\ FinishesOk(p)) =>
         tables'[orders[req[p].orderId].table_id].status = "available"]_vars

\* C11 witness: the only request so far completed order 1 with success, and table
\* 1, occupied before, is available.
C11_Witness ==
  /\ Quiescent
  /\ budget = MaxOrderRequests - 1
  /\ OkCount("setStatus") + OkCount("socketStatus") = 1
  /\ orders[1].status = "completed"
  /\ tables[1].status = "available"

\* the answers of staff status changes whose table update failed
FailedReleases ==
  {a \in BagToSet(answers) : /\ a.op \in {"setStatus", "socketStatus"}
                             /\ a.result \in {"Internal error", "Failed to update order status"}}

\* C12: when the only request so far was a status change to completed or cancelled
\* whose table update failed, the order has its previous status (pending) again: the
\* status write is rolled back together with the failed table release.
C12_FailedReleaseRollsBack ==
  (Quiescent /\ budget = MaxOrderRequests - 1 /\ FailedReleases # {}) =>
    orders[1].status = "pending"

\* the events of the given name that room r received, in order of arrival
EventsNamed(r, name) == SelectSeq(rooms[r], LAMBDA e : e.name = name)

\* C13: the events of successful mutations of one order reach the order's room in
\* the order in which the mutations were written to the store.  Stated for item
\* inserts, whose order of writing is the order of the item ids: the item-added
\* events of an order arrive in ascending order of their item ids.
C13_EventsFollowCommitOrder ==
  \A r \in DOMAIN rooms :
    LET added == EventsNamed(r, "item-added") IN
    \A i, j \in DOMAIN added : i < j => added[i].itemId < added[j].itemId

\* the handlers that change an order: item add, update, remove, submit, status change
MutationOps == {"addItem", "updateItem", "removeItem", "submitOrder", "setStatus", "socketStatus"}

\* the requests that change order o and are answered with success in this step
FinishingOn(o) ==
  {p \in Procs : FinishesOk(p) /\ req[p].op \in MutationOps /\ req[p].orderId = o}

\* the events room r receives in this step
NewEvents(r) == SubSeq(rooms'[r], Len(rooms[r]) + 1, Len(rooms'[r]))

StatusTarget(p) == IF req[p].op = "submitOrder" THEN "confirmed" ELSE req[p].status

\* C15: whenever a request that changes the status (submitOrder, HTTP setStatus,
\* socket update-order-status) finishes with success, the kitchen room receives an
\* event if the new status is confirmed and the cashier room receives an event if
\* the new status is ready or completed.
C15_StaffRoomsNotified ==
  [][\A p \in Procs :
       (req[p].op \in {"submitOrder", "setStatus", "socketStatus"} /\ FinishesOk(p)) =>
         /\ (StatusTarget(p) = "confirmed" =>
               Len(NewEvents(KitchenRoom(RestaurantId))) > 0)
         /\ (StatusTarget(p) \in {"ready", "completed"} =>
               Len(NewEvents(CashierRoom(RestaurantId))) > 0)]_vars

\* the handlers a guest calls with a session token
GuestOps == {"addItem", "updateItem", "removeItem", "submitOrder"}

\* the order of every issued token is served, completed or cancelled
AllSessionsEnded ==
  \A g \in DOMAIN guests : orders[guests[g].order_id].status \in {"served", "completed", "cancelled"}

C17_SessionFailuresAlike ==
  \A t1, t2 \in TokenInputs \ {0} :
    LET v1 == validateGuestSession(guests, orders, t1)
        v2 == validateGuestSession(guests, orders, t2) IN
    (v1 # "ok" /\ v2 # "ok") => v1 = v2

\* C18: every scan of a known table of the active restaurant (none is under
\* maintenance) succeeds, whatever name it carries and whatever runs alongside, and
\* returns a guest of its own that is bound to the order it names.
C18_ScanOfValidTableSucceeds ==
  \A t \in TableIds :
    \A a \in ScanAnswers(t) :
      /\ a.result = "ok"
      /\ a.guestId \in DOMAIN guests
      /\ guests[a.guestId].order_id = a.orderId

\* request p looks up an item that is stored for another order than its session's
LooksUpForeignItem(p) ==
  /\ req[p].pc \in {"updateItem_findItem", "removeItem_findItem"}
  /\ req[p].itemId \in DOMAIN items
  /\ ~items[req[p].itemId].deleted
  /\ items[req[p].itemId].order_id # req[p].orderId

\* C19: a guest session bound to one order never changes an item of another order:
\* an updateItem or removeItem that names an item of another order is refused at the
\* lookup, an item row changes only in a step of an updateItem or removeItem whose
\* session is bound to the item's order, and the totals of an order change only in a
\* step of a request whose session is bound to that order.
C19_NoCrossOrderItemChange ==
  [][ /\ \A p \in Procs :
          (LooksUpForeignItem(p) /\ req'[p] # req[p]) => (req'[p].pc = "idle" /\ ~FinishesOk(p))
      /\ \A i \in DOMAIN items :
          items'[i] # items[i] =>
            \E p \in Procs : /\ req[p].op \in {"updateItem", "removeItem"}
                             /\ req[p].itemId = i
                             /\ req[p].orderId = items[i].order_id
                             /\ guests[req[p].guestId].order_id = items[i].order_id
      /\ \A o \in OrderIds :
          StoredTotals(orders', o) # StoredTotals(orders, o) =>
            \E p \in Procs : req[p].orderId = o /\ guests[req[p].guestId].order_id = o]_vars

\* C19 witness: an updateItem and a removeItem that named an item of the other order
\* were both refused, and both items are stored as before.
C19_Witness ==
  /\ Quiescent
  /\ \E a \in BagToSet(answers) :
       a.op = "updateItem" /\ a.result = "This item does not belong to your order"
  /\ \E a \in BagToSet(answers) :
       a.op = "removeItem" /\ a.result = "This item does not belong to your order"
  /\ \A i \in DOMAIN items : ~items[i].deleted /\ items[i].quantity = 1

\* n / d rounded half up (n >= 0, d > 0)
HalfUp(n, d) == (2 * n + d) \div (2 * d)

\* exactly one request has been made on order 1, an updateItem or removeItem, and
\* it was answered with success
OneMutationDone ==
  /\ Quiescent
  /\ budget = MaxOrderRequests - 1
  /\ OkCount("updateItem") + OkCount("removeItem") = 1

\* C20: after a successful item mutation with nothing else in flight the stored
\* totals are subtotal = sum of the item subtotals, tax_amount = subtotal x
\* tax_rate / 100, service_charge = subtotal x service_charge_rate / 100 and
\* total_amount = subtotal + tax + service charge - discount, each computed from
\* the unrounded subtotal and rounded half up to cents.
C20_StoredTotalsRoundHalfUp ==
  OneMutationDone =>
    LET subtotal == SumSubtotals(items, ItemsOfOrder(items, 1)) IN
    /\ orders[1].subtotal = subtotal
    /\ orders[1].tax_amount = HalfUp(subtotal * Restaurant.tax_rate, 100)
    /\ orders[1].service_charge = HalfUp(subtotal * Restaurant.service_charge_rate, 100)
    /\ orders[1].total_amount =
         HalfUp(subtotal * (100 + Restaurant.tax_rate + Restaurant.service_charge_rate)
                  - 100 * orders[1].discount_amount, 100)

RECURSIVE SumOf(_, _)
\* the sum of f[x] over the x in S
SumOf(f, S) == IF S = {} THEN 0 ELSE LET x == CHOOSE y \in S : TRUE IN f[x] + SumOf(f, S \ {x})

\* this step answers a bill split of order o while no other request is in flight
SplitAnswered(o) ==
  /\ Quiescent
  /\ LET a == Answered(Answer("billSplit", "ok", o, 0)) IN
     CopiesIn(a, answers') = CopiesIn(a, answers) + 1

\* C21: the bill split of an order, computed while nothing else is in flight, has
\* per-guest subtotals that add up to the stored subtotal of the order exactly and
\* per-guest totals that add up to the stored total of the order within one cent
\* per guest of the split.
C21_BillSplitAddsUp ==
  [][\A o \in OrderIds :
       SplitAnswered(o) =>
         LET b == calculateBillSplit(items, orders, o)
             gs == DOMAIN b.guestBills IN
         /\ SumOf([g \in gs |-> b.guestBills[g].subtotal], gs) = orders[o].subtotal
         /\ Abs(SumOf([g \in gs |-> b.guestBills[g].total], gs) - b.overallTotal)
              <= Cardinality(gs)]_vars

\* C22: the unit_price stored with an order item never changes, whatever happens
\* to the menu; a step of updateMenuItem leaves every order item and every order
\* as it is; and the subtotal of every stored item is its quantity times its own
\* unit_price, in particular after an updateItem that follows a change of the menu
\* price.
C22_UnitPriceFixedAtAdd ==
  [][ /\ \A i \in DOMAIN items :
          /\ items'[i].unit_price = items[i].unit_price
          /\ items'[i].subtotal = items'[i].unit_price * items'[i].quantity
      /\ (menu' # menu => (items' = items /\ orders' = orders))
      /\ \A p \in Procs :
          (req[p].pc = "updateItem_update" /\ req'[p] # req[p] /\ ~items[req[p].itemId].deleted) =>
            items'[req[p].itemId].subtotal = items[req[p].itemId].unit_price * req[p].quantity]_vars

\* C22 witness: the price of menu item 1 was changed after the item was added, an
\* updateItem then set the quantity of the item to 2, and the item still has the
\* price it was added with and the subtotal that follows from it.
C22_Witness ==
  /\ Quiescent
  /\ Len(items) = 1
  /\ menu[1].price # items[1].unit_price
  /\ OkCount("updateItem") = 1
  /\ items[1].quantity = 2
  /\ items[1].unit_price = 5000
  /\ items[1].subtotal = 10000

\* the only request made on the open order was an item mutation that failed in the
\* recomputation of the totals
OneMutationFailed ==
  /\ Quiescent
  /\ budget = MaxOrderRequests - 1
  /\ \E a \in BagToSet(answers) :
       a.op \in {"addItem", "updateItem", "removeItem"} /\ a.result = "Internal error"

\* the items the open order held before any request: the item of the addItem
\* answered before, if there was one
ItemsBefore == IF OkCount("addItem") = 1 THEN <<FirstItem>> ELSE <<>>

\* C23: after an addItem, updateItem or removeItem that failed in the recomputation
\* of the totals, the items and the stored totals of the order are what they were
\* before the call.
C23_FailedMutationLeavesNoTrace ==
  OneMutationFailed =>
    /\ items = ItemsBefore
    /\ LET t == calculateOrderTotals(ItemsBefore, 1) IN
       StoredTotals(orders, 1) = <<t.subtotal, t.tax_amount, t.service_charge, t.total_amount>>

\* C24: a scan whose lookup finds the most recent order of its table in status
\* pending, confirmed, preparing or ready joins that order and goes on to create
\* its guest; the lookup sends a scan on to create an order only when the table has
\* no order in one of these four statuses; and the order a scan creates has status
\* pending and all amounts zero.
C24_ScanJoinsActiveOrder ==
  [][ /\ \A p \in Procs :
          (req[p].pc = "scan_findOrder" /\ req'[p] # req[p]) =>
            /\ (OrdersOfTable(req[p].tableId) # {} =>
                  LET last == Max(OrdersOfTable(req[p].tableId)) IN
                  orders[last].status \in {"pending", "confirmed", "preparing", "ready"} =>
                    /\ req'[p].orderId = last
                    /\ req'[p].pc \in {"scan_countGuests", "scan_createGuest"})
            /\ (req'[p].pc = "scan_orderNumber" => ActiveOrdersOfTable(req[p].tableId) = {})
      /\ (Len(orders') > Len(orders) =>
            \E p \in Procs :
              /\ req[p].pc = "scan_createOrder"
              /\ orders' = Append(orders, orders'[Len(orders')])
              /\ orders'[Len(orders')].table_id = req[p].tableId
              /\ orders'[Len(orders')].status = "pending"
              /\ StoredTotals(orders', Len(orders')) = <<0, 0, 0, 0>>)]_vars

AdminTableStep(t) ==
  \E a \in BagToSet(answers') :
    /\ a.op \in {"updateTableStatus", "updateTable"}
    /\ a.tableId = t
    /\ CopiesIn(a, answers') > CopiesIn(a, answers)

\* C26: a step that answers an admin updateTableStatus or updateTable request on a
\* table that has an order in status pending, confirmed, preparing or ready leaves
\* the status of the table as it is.
C26_AdminCannotChangeBusyTable ==
  [][\A t \in DOMAIN tables :
       (ActiveOrdersOfTable(t) # {} /\ AdminTableStep(t)) =>
         tables'[t].status = tables[t].status]_vars

\* C27: whenever no request is in flight, every table that has an order in status
\* pending, confirmed, preparing or ready has status occupied.  Stated for the runs
\* the claim singles out: scans of the table and one staff status change, in any
\* interleaving.
C27_BusyTableIsOccupied ==
  (Quiescent /\ OkCount("setStatus") + OkCount("socketStatus") <= 1) =>
    \A t \in DOMAIN tables : ActiveOrdersOfTable(t) # {} => tables[t].status = "occupied"

\* C28: without staff status changes at most one submitOrder call of an order is
\* answered with success and the kitchen room receives at most one new-order event
\* for it.
C28_OneSubmitPerOrder ==
  /\ OkCount("submitOrder") <= 1
  /\ \A o \in OrderIds :
       Len(SelectSeq(EventsNamed(KitchenRoom(RestaurantId), "new-order"),
                     LAMBDA e : e.orderId = o)) <= 1

\* the answers given in this step
NewAnswers == {a \in BagToSet(answers') : CopiesIn(a, answers') > CopiesIn(a, answers)}

\* the scan of slot p created its order (it went through generateOrderNumber and
\* Order.create) and is answered in this step
AnsweredCreator(p) ==
  req[p].pc = "scan_createGuest" /\ req'[p].pc = "idle" /\ req[p].n # 0

\* C29: a successful scan is answered with 'New session started for this table'
\* exactly if it created the order it names, and with 'Joined existing table
\* session' otherwise.
C29_NewSessionReportedByCreator ==
  [][\A a \in NewAnswers :
       (a.op = "scan" /\ a.result = "ok") =>
         a.message = IF \E p \in Procs : AnsweredCreator(p)
                       THEN "New session started for this table"
                       ELSE "Joined existing table session"]_vars

\* this step is the socket's leave-order
LeaveStep ==
  \E a \in NewAnswers : a.op = "leaveOrder"

\* the guest-activity-update and item-being-added events room r receives in this step
RelayedInto(r) ==
  SelectSeq(NewEvents(r), LAMBDA e : e.name \in {"guest-activity-update", "item-being-added"})

\* C30: after every step the socket is in at most one order room, and that room is
\* the one of socket.data.orderId; after leave-order it is in no order room; and a
\* guest-activity or item-adding event is passed on into an order room only while
\* the socket is in that room.
C30_SocketInOneOrderRoom ==
  [][ /\ Cardinality(socket'.joined) <= 1
      /\ socket'.joined \subseteq {socket'.orderId}
      /\ (LeaveStep => socket'.joined = {})
      /\ \A o \in OrderIds :
          (OrderRoom(o) \in DOMAIN rooms /\ Len(RelayedInto(OrderRoom(o))) > 0) =>
            o \in socket.joined]_vars

====
